---- MODULE Spec2Model ----
(***************************************************************************)
(* Live location tracking of the food-redistribution platform:             *)
(*   - the live_locations table (the Store),                                *)
(*   - the useLocationTracking hook of one participant's device            *)
(*     (publisher half: watchPosition -> upsert, stopTracking -> delete;   *)
(*      synchronisation half: fetch + realtime channel -> trackedUsers),   *)
(*   - the LiveTrackingMap component (marker reconciliation, fitBounds).   *)
(* React is modelled by what it does: state setters record the new state,  *)
(* a later Render commits it, re-creates the closures and runs the effects *)
(* whose dependencies changed (cleanup of the previous run first).         *)
(***************************************************************************)
EXTENDS Naturals, Integers, FiniteSets, Sequences, Bags

\* ---------------------------------------------------------------- bounds
MaxEvents == 2
MaxWatches == 2
MaxStops == 1
MaxFetches == 2
MaxPending == 1
MaxChannels == 2
MaxMarkers == 3
MaxPeerWrites == 2

\* ------------------------------------------------------------- universes
Me == "u1"
Users == {"u1", "u2", "u3"}
Others == Users \ {Me}
NoUser == "none"
Matches == {"m1", "m2"}
NoMatch == "null"
NoWatch == 0
\* a heading or speed the device does not report is null in position.coords;
\* a key of a LocationData or of an upsert payload that is undefined is Undefined
Null == -1
Undefined == -2
NoLocation == [latitude |-> 0, longitude |-> 0, accuracy |-> Undefined, heading |-> Undefined,
               speed |-> Undefined, set |-> FALSE]
\* position.coords of the location events: two places, read by a device that
\* reports neither heading nor speed
Locations == {[latitude |-> 10, longitude |-> 20, accuracy |-> 5, heading |-> Null,
               speed |-> Null, set |-> TRUE],
              [latitude |-> 11, longitude |-> 21, accuracy |-> 5, heading |-> Null,
               speed |-> Null, set |-> TRUE]}
\* position.coords of a device that reports heading and speed when it moves:
\* at rest (nothing reported), turned north at rest (heading 0, speed 0),
\* moving east (heading 90, speed 3), moving with no compass (speed 3 only)
Readings == {[latitude |-> 10, longitude |-> 20, accuracy |-> 5, heading |-> Null,
              speed |-> Null, set |-> TRUE],
             [latitude |-> 10, longitude |-> 20, accuracy |-> 0, heading |-> 0,
              speed |-> 0, set |-> TRUE],
             [latitude |-> 10, longitude |-> 20, accuracy |-> 5, heading |-> 90,
              speed |-> 3, set |-> TRUE],
             [latitude |-> 10, longitude |-> 20, accuracy |-> 5, heading |-> Null,
              speed |-> 3, set |-> TRUE]}
FitPadding == 50
FitMaxZoom == 15

\* ------------------------------------------------------------ the Store
\* live_locations is a bag of rows: the table itself can hold any multiset
\* of rows, what keeps (user_id, match_id) unique is the write path.
\* the LocationData built by the position callback (73-79): `?? undefined`
OrUndefined(v) == IF v = Null THEN Undefined ELSE v

LocationOf(coords) ==
  [coords EXCEPT !.heading = OrUndefined(@), !.speed = OrUndefined(@)]

\* the upsert payload of a LocationData (42-50); a key whose value is
\* undefined is not sent
Row(uid, mid, loc) ==
  [user_id |-> uid, match_id |-> mid, latitude |-> loc.latitude, longitude |-> loc.longitude,
   accuracy |-> loc.accuracy, heading |-> loc.heading, speed |-> loc.speed]

\* a column that is not in the payload is NULL in an inserted row and keeps
\* its value in a row that the upsert updates
OrNull(v) == IF v = Undefined THEN Null ELSE v

Inserted(row) ==
  [row EXCEPT !.accuracy = OrNull(@), !.heading = OrNull(@), !.speed = OrNull(@)]

OrOld(v, old) == IF v = Undefined THEN old ELSE v

Updated(old, row) ==
  [row EXCEPT !.accuracy = OrOld(@, old.accuracy), !.heading = OrOld(@, old.heading),
              !.speed = OrOld(@, old.speed)]

One(r) == SetToBag({r})

RowsOf(s, uid, mid) == {r \in BagToSet(s) : r.user_id = uid /\ r.match_id = mid}

CountOf(s, uid, mid) == BagCardinality([r \in RowsOf(s, uid, mid) |-> s[r]])

\* INSERT ... ON CONFLICT (user_id, match_id) DO UPDATE: the conflicting row
\* is rewritten in place, an insert happens only when there is none.
UpsertNoConflict(s, row) == s (+) One(Inserted(row))

Upsert(s, row) ==
  LET hit == RowsOf(s, row.user_id, row.match_id) IN
  IF hit = {} THEN s (+) One(Inserted(row))
  ELSE LET old == CHOOSE r \in hit : TRUE IN (s (-) One(old)) (+) One(Updated(old, row))

\* DELETE ... WHERE user_id = uid AND match_id = mid
DeleteKeepsRows(s, uid, mid) == s

DeleteRowsOfUser(s, uid, mid) ==
  LET keep == {r \in BagToSet(s) : r.user_id # uid} IN
  [r \in keep |-> s[r]]

DeleteRows(s, uid, mid) ==
  LET keep == {r \in BagToSet(s) : ~(r.user_id = uid /\ r.match_id = mid)} IN
  [r \in keep |-> s[r]]

\* SELECT * WHERE match_id = mid
SelectByMatch(s, mid) == {r \in BagToSet(s) : r.match_id = mid}

\* the recipient, the volunteer and the donor of each match (the subquery of
\* the SELECT policy, part_001 23-30): the owner of the hook is a party of m1
\* and a stranger to m2
Parties(mid) == IF mid = "m1" THEN {"u1", "u2", "u3"} ELSE {"u2", "u3"}

\* the SELECT policy is a USING clause: the rows it does not admit are left
\* out of the result, the statement itself succeeds (part_001 20-31)
SelectAs(caller, s, mid) ==
  {r \in SelectByMatch(s, mid) : caller \in Parties(r.match_id)}

\* row-level security: a write is allowed when auth.uid() = user_id
WriteAllowedToAll(caller, uid) == TRUE

WriteAllowed(caller, uid) == caller = uid

VARIABLES
  store,            \* live_locations
  authUser,         \* what supabase.auth.getUser() resolves to on this device
  geoAvailable,     \* navigator.geolocation exists
  mounted,          \* the component using the hook is mounted
  matchId,          \* the matchId prop of the last render
  isTracking, currentLocation, trackedUsers, watchId,   \* useState values
  rWatchId,         \* watchId as captured by the closures of the last render
  watches,          \* active geolocation watches: [id, mid] (mid = matchId of the updateLocation closure)
  nextWatch,
  updTasks,         \* updateLocation calls in flight
  nextEvent,
  stopTasks,        \* stopTracking calls past their synchronous part
  nextStop,
  fetches,          \* fetchLocations calls in flight (a bag)
  channels,         \* every realtime channel this instance opened, in order
  mapLoaded, depsChanged, markersRef, onMap, nextMarker, viewport,
  toasts,           \* titles of the notifications shown so far (a set)
  peerWrites,       \* writes made from other devices so far
  hist              \* observation record of the run (not program state)

vars == <<store, authUser, geoAvailable, mounted, matchId, isTracking, currentLocation,
          trackedUsers, watchId, rWatchId, watches, nextWatch, updTasks, nextEvent,
          stopTasks, nextStop, fetches, channels, mapLoaded, depsChanged, markersRef,
          onMap, nextMarker, viewport, toasts, peerWrites, hist>>

storeVars == <<store, peerWrites>>
hookState == <<isTracking, currentLocation, trackedUsers, watchId>>
geoVars == <<watches, nextWatch>>
viewVars == <<mapLoaded, markersRef, onMap, nextMarker, viewport>>


\* --------------------------------------------------- realtime channels
IsOpen(ch) == ch.removed = 0

\* .subscribe() only starts the join: events flow once the server has acknowledged it
Listening(ch) == IsOpen(ch) /\ ch.joined

NewChannel(mid) == [mid |-> mid, removed |-> 0, joined |-> FALSE, pending |-> 0]

OpenChannels == {i \in DOMAIN channels : IsOpen(channels[i])}

\* a write to a row of session mid raises one postgres_changes event on
\* every open channel filtered on match_id = mid
CanNotify(mid) ==
  \A i \in OpenChannels :
     Listening(channels[i]) /\ channels[i].mid = mid => channels[i].pending < MaxPending

Notify(chs, mid) ==
  [i \in DOMAIN chs |->
     IF Listening(chs[i]) /\ chs[i].mid = mid
     THEN [chs[i] EXCEPT !.pending = @ + 1] ELSE chs[i]]

\* a write to session mid while a channel on it is still joining raises no event there
Missed(mid) == \E i \in OpenChannels : channels[i].mid = mid /\ ~channels[i].joined

\* supabase.removeChannel(channel)
RemoveChannel(chs, i) ==
  [chs EXCEPT ![i] = [@ EXCEPT !.removed = @ + 1, !.pending = 0]]

NewFetch(mid, src) == [mid |-> mid, src |-> src, phase |-> "sent", data |-> {}]

Init ==
  /\ store = EmptyBag
  /\ authUser \in {Me, NoUser}
  /\ geoAvailable \in BOOLEAN
  /\ mounted = TRUE
  /\ matchId \in Matches \cup {NoMatch}
  /\ isTracking = FALSE
  /\ currentLocation = NoLocation
  /\ trackedUsers = {}
  /\ watchId = NoWatch
  /\ rWatchId = NoWatch
  /\ watches = {}
  /\ nextWatch = 1
  /\ updTasks = {}
  /\ nextEvent = 1
  /\ stopTasks = {}
  /\ nextStop = 1
  \* the first render has run the fetch/subscribe effect
  /\ fetches = IF matchId = NoMatch THEN EmptyBag ELSE One(NewFetch(matchId, "init"))
  /\ channels = IF matchId = NoMatch THEN << >>
                ELSE << NewChannel(matchId) >>
  /\ mapLoaded = FALSE
  /\ depsChanged = FALSE
  /\ markersRef = [u \in {} |-> 0]
  /\ onMap = {}
  /\ nextMarker = 1
  /\ viewport = [fitted |-> FALSE, west |-> 0, south |-> 0, east |-> 0, north |-> 0,
                 padding |-> 0, maxZoom |-> 0]
  /\ toasts = {}
  /\ peerWrites = 0
  /\ hist = [seq |-> "idle", lastStop |-> NoMatch, replaced |-> FALSE, fetchFailed |-> FALSE,
             missed |-> FALSE, tuSrc |-> "none", halted |-> FALSE,
             recovered |-> FALSE, failedInit |-> FALSE, attempts |-> 0, writeErrors |-> 0,
             deleteFailed |-> FALSE, reading |-> NoLocation,
             foreign |-> FALSE, rejected |-> FALSE,
             run |-> [kept |-> FALSE, removed |-> FALSE, created |-> FALSE, same |-> FALSE]]

\* ------------------------------------------------- Location Publisher
\* startTracking (useLocationTracking.ts 61-104)
StartTrackingUnguarded ==
  /\ mounted
  /\ nextWatch <= MaxWatches
  /\ watches' = watches \cup {[id |-> nextWatch, mid |-> matchId]}
  /\ nextWatch' = nextWatch + 1
  /\ watchId' = nextWatch
  /\ isTracking' = TRUE
  /\ toasts' = toasts \cup {"Location Sharing Started"}
  /\ hist' = [hist EXCEPT !.seq = IF @ = "stopped" THEN "restarted" ELSE "idle",
                          !.lastStop = NoMatch, !.halted = FALSE]
  /\ UNCHANGED <<currentLocation, trackedUsers>>
  /\ UNCHANGED <<storeVars, authUser, geoAvailable, mounted, matchId, rWatchId, updTasks,
                 nextEvent, stopTasks, nextStop, fetches, channels, depsChanged, viewVars>>

StartTracking ==
  /\ mounted
  /\ IF ~geoAvailable
     THEN /\ toasts' = toasts \cup {"Error"}
          /\ hist' = [hist EXCEPT !.seq = "idle"]
          /\ UNCHANGED <<hookState, geoVars>>
     ELSE /\ nextWatch <= MaxWatches
          /\ watches' = watches \cup {[id |-> nextWatch, mid |-> matchId]}
          /\ nextWatch' = nextWatch + 1
          /\ watchId' = nextWatch
          /\ isTracking' = TRUE
          /\ toasts' = toasts \cup {"Location Sharing Started"}
          /\ hist' = [hist EXCEPT !.seq = IF @ = "stopped" THEN "restarted" ELSE "idle",
                                  !.lastStop = NoMatch, !.halted = FALSE]
          /\ UNCHANGED <<currentLocation, trackedUsers>>
  /\ UNCHANGED <<storeVars, authUser, geoAvailable, mounted, matchId, rWatchId, updTasks,
                 nextEvent, stopTasks, nextStop, fetches, channels, depsChanged, viewVars>>

\* the position callback of a watch (71-82) and the synchronous part of
\* updateLocation (34-37): the closure's matchId is the one of the render
\* that created startTracking
PositionEventNoDisplay(w, loc) ==
  /\ w \in watches
  /\ nextEvent <= MaxEvents
  /\ nextEvent' = nextEvent + 1
  /\ updTasks' = IF w.mid = NoMatch THEN updTasks
                 ELSE updTasks \cup {[ev |-> nextEvent, pc |-> "getUser", loc |-> LocationOf(loc),
                                      mid |-> w.mid, uid |-> NoUser]}
  /\ hist' = [hist EXCEPT !.recovered = @ \/ "Location Error" \in toasts, !.reading = loc]
  /\ UNCHANGED <<storeVars, authUser, geoAvailable, mounted, matchId, isTracking, trackedUsers,
                 watchId, rWatchId, geoVars, stopTasks, nextStop, fetches, channels,
                 depsChanged, viewVars, toasts, currentLocation>>

PositionEvent(w, loc) ==
  /\ w \in watches
  /\ nextEvent <= MaxEvents
  /\ nextEvent' = nextEvent + 1
  /\ currentLocation' = IF mounted THEN LocationOf(loc) ELSE currentLocation
  /\ updTasks' = IF w.mid = NoMatch THEN updTasks
                 ELSE updTasks \cup {[ev |-> nextEvent, pc |-> "getUser", loc |-> LocationOf(loc),
                                      mid |-> w.mid, uid |-> NoUser]}
  /\ hist' = [hist EXCEPT !.recovered = @ \/ "Location Error" \in toasts, !.reading = loc]
  /\ UNCHANGED <<storeVars, authUser, geoAvailable, mounted, matchId, isTracking, trackedUsers,
                 watchId, rWatchId, geoVars, stopTasks, nextStop, fetches, channels,
                 depsChanged, viewVars, toasts>>

\* the error callback of a watch (83-90)
GeoErrorEndsWatch(w) ==
  /\ w \in watches
  /\ watches' = watches \ {w}
  /\ toasts' = toasts \cup {"Location Error"}
  /\ UNCHANGED <<storeVars, authUser, geoAvailable, mounted, matchId, hookState, rWatchId,
                 nextWatch, updTasks, nextEvent, stopTasks, nextStop, fetches, channels,
                 depsChanged, viewVars, hist>>

GeoError(w) ==
  /\ w \in watches
  /\ toasts' = toasts \cup {"Location Error"}
  /\ UNCHANGED <<storeVars, authUser, geoAvailable, mounted, matchId, hookState, rWatchId,
                 geoVars, updTasks, nextEvent, stopTasks, nextStop, fetches, channels,
                 depsChanged, viewVars, hist>>

\* updateLocation resumes after `await supabase.auth.getUser()` (37-38)
UpdGetUser(t) ==
  /\ t \in updTasks /\ t.pc = "getUser"
  /\ updTasks' = IF authUser = NoUser THEN updTasks \ {t}
                 ELSE (updTasks \ {t}) \cup {[t EXCEPT !.pc = "upsert", !.uid = authUser]}
  /\ UNCHANGED <<storeVars, authUser, geoAvailable, mounted, matchId, hookState, rWatchId,
                 geoVars, nextEvent, stopTasks, nextStop, fetches, channels, depsChanged,
                 viewVars, toasts, hist>>

\* the upsert reaches the Store and succeeds (40-53)
UpdUpsert(t) ==
  /\ t \in updTasks /\ t.pc = "upsert"
  /\ WriteAllowed(authUser, t.uid)
  /\ CanNotify(t.mid)
  /\ store' = Upsert(store, Row(t.uid, t.mid, t.loc))
  /\ channels' = Notify(channels, t.mid)
  /\ updTasks' = updTasks \ {t}
  /\ hist' = [hist EXCEPT !.replaced = @ \/ RowsOf(store, t.uid, t.mid) # {},
                          !.missed = @ \/ Missed(t.mid),
                          !.attempts = @ + 1]
  /\ UNCHANGED <<peerWrites, authUser, geoAvailable, mounted, matchId, hookState, rWatchId,
                 geoVars, nextEvent, stopTasks, nextStop, fetches, depsChanged, viewVars, toasts>>

\* the upsert fails: console.error only (55-57)
UpdUpsertFailNotifies(t) ==
  /\ t \in updTasks /\ t.pc = "upsert"
  /\ updTasks' = updTasks \ {t}
  /\ toasts' = toasts \cup {"Error"}
  /\ hist' = [hist EXCEPT !.attempts = @ + 1, !.writeErrors = @ + 1]
  /\ UNCHANGED <<storeVars, authUser, geoAvailable, mounted, matchId, hookState, rWatchId,
                 geoVars, nextEvent, stopTasks, nextStop, fetches, channels, depsChanged,
                 viewVars>>

UpdUpsertFail(t) ==
  /\ t \in updTasks /\ t.pc = "upsert"
  /\ updTasks' = updTasks \ {t}
  /\ hist' = [hist EXCEPT !.attempts = @ + 1, !.writeErrors = @ + 1]
  /\ UNCHANGED <<storeVars, authUser, geoAvailable, mounted, matchId, hookState, rWatchId,
                 geoVars, nextEvent, stopTasks, nextStop, fetches, channels, depsChanged,
                 viewVars, toasts>>

\* stopTracking up to its first await (107-117)
StopTrackingLeavesWatch ==
  /\ watches' = watches
  /\ watchId' = IF rWatchId # NoWatch THEN NoWatch ELSE watchId

StopTrackingClearsWatch ==
  /\ watches' = IF rWatchId # NoWatch THEN {w \in watches : w.id # rWatchId} ELSE watches
  /\ watchId' = IF rWatchId # NoWatch THEN NoWatch ELSE watchId

StopTracking ==
  /\ mounted
  /\ nextStop <= MaxStops
  /\ nextStop' = nextStop + 1
  /\ StopTrackingClearsWatch
  /\ isTracking' = FALSE
  /\ currentLocation' = NoLocation
  /\ IF matchId # NoMatch
     THEN /\ stopTasks' = stopTasks \cup {[id |-> nextStop, pc |-> "getUser", mid |-> matchId,
                                           uid |-> NoUser]}
          /\ toasts' = toasts
     ELSE /\ stopTasks' = stopTasks
          /\ toasts' = toasts \cup {"Location Sharing Stopped"}
  /\ hist' = [hist EXCEPT !.seq = IF rWatchId # NoWatch /\ rWatchId = watchId
                                     /\ watches = {w \in watches : w.id = rWatchId}
                                     /\ watches # {}
                                  THEN "stopped" ELSE "idle",
                          !.halted = TRUE]
  /\ UNCHANGED <<storeVars, authUser, geoAvailable, mounted, matchId, trackedUsers, rWatchId,
                 nextWatch, updTasks, nextEvent, fetches, channels, depsChanged, viewVars>>

\* stopTracking resumes after `await supabase.auth.getUser()` (117-118)
StopGetUser(t) ==
  /\ t \in stopTasks /\ t.pc = "getUser"
  /\ IF authUser = NoUser
     THEN /\ stopTasks' = stopTasks \ {t}
          /\ toasts' = toasts \cup {"Location Sharing Stopped"}
     ELSE /\ stopTasks' = (stopTasks \ {t}) \cup {[t EXCEPT !.pc = "delete", !.uid = authUser]}
          /\ toasts' = toasts
  /\ UNCHANGED <<storeVars, authUser, geoAvailable, mounted, matchId, hookState, rWatchId,
                 geoVars, updTasks, nextEvent, nextStop, fetches, channels, depsChanged,
                 viewVars, hist>>

\* the delete reaches the Store and succeeds; stopTracking then shows its toast (119-130)
StopDelete(t) ==
  /\ t \in stopTasks /\ t.pc = "delete"
  /\ WriteAllowed(authUser, t.uid)
  /\ RowsOf(store, t.uid, t.mid) # {} => CanNotify(t.mid)
  /\ store' = DeleteRows(store, t.uid, t.mid)
  /\ channels' = IF RowsOf(store, t.uid, t.mid) # {} THEN Notify(channels, t.mid) ELSE channels
  /\ stopTasks' = stopTasks \ {t}
  /\ toasts' = toasts \cup {"Location Sharing Stopped"}
  /\ hist' = [hist EXCEPT !.lastStop = IF isTracking THEN @ ELSE t.mid,
                          !.missed = @ \/ (RowsOf(store, t.uid, t.mid) # {} /\ Missed(t.mid))]
  /\ UNCHANGED <<peerWrites, authUser, geoAvailable, mounted, matchId, hookState, rWatchId,
                 geoVars, updTasks, nextEvent, nextStop, fetches, depsChanged, viewVars>>

\* the delete fails: the result is not inspected, the toast is shown all the same
StopDeleteFail(t) ==
  /\ t \in stopTasks /\ t.pc = "delete"
  /\ stopTasks' = stopTasks \ {t}
  /\ toasts' = toasts \cup {"Location Sharing Stopped"}
  /\ hist' = [hist EXCEPT !.deleteFailed = TRUE]
  /\ UNCHANGED <<storeVars, authUser, geoAvailable, mounted, matchId, hookState, rWatchId,
                 geoVars, updTasks, nextEvent, nextStop, fetches, channels, depsChanged,
                 viewVars>>

\* the same hook on another device (any participant's), seen from the Store
PeerUpsert(u, mid, loc) ==
  /\ peerWrites < MaxPeerWrites
  /\ CanNotify(mid)
  /\ store' = Upsert(store, Row(u, mid, LocationOf(loc)))
  /\ channels' = Notify(channels, mid)
  /\ peerWrites' = peerWrites + 1
  /\ hist' = [hist EXCEPT !.missed = @ \/ Missed(mid)]
  /\ UNCHANGED <<authUser, geoAvailable, mounted, matchId, hookState, rWatchId, geoVars,
                 updTasks, nextEvent, stopTasks, nextStop, fetches, depsChanged, viewVars,
                 toasts>>

PeerDelete(u, mid) ==
  /\ peerWrites < MaxPeerWrites
  /\ RowsOf(store, u, mid) # {}
  /\ CanNotify(mid)
  /\ store' = DeleteRows(store, u, mid)
  /\ channels' = Notify(channels, mid)
  /\ peerWrites' = peerWrites + 1
  /\ hist' = [hist EXCEPT !.missed = @ \/ Missed(mid)]
  /\ UNCHANGED <<authUser, geoAvailable, mounted, matchId, hookState, rWatchId, geoVars,
                 updTasks, nextEvent, stopTasks, nextStop, fetches, depsChanged, viewVars,
                 toasts>>


\* any request a signed-in participant can send to the Store with the public
\* client: an upsert of a row with any user_id, under the INSERT / UPDATE
\* policies (part_001 34-40) ...
AttemptUpsert(caller, uid, mid, loc) ==
  /\ peerWrites < MaxPeerWrites
  /\ peerWrites' = peerWrites + 1
  /\ IF WriteAllowed(caller, uid)
     THEN /\ CanNotify(mid)
          /\ store' = Upsert(store, Row(uid, mid, LocationOf(loc)))
          /\ channels' = Notify(channels, mid)
     ELSE UNCHANGED <<store, channels>>
  /\ hist' = [hist EXCEPT !.missed = @ \/ (WriteAllowed(caller, uid) /\ Missed(mid)),
                          !.foreign = @ \/ (caller # uid /\ store' # store),
                          !.rejected = @ \/ (caller # uid /\ store' = store)]
  /\ UNCHANGED <<authUser, geoAvailable, mounted, matchId, hookState, rWatchId, geoVars,
                 updTasks, nextEvent, stopTasks, nextStop, fetches, depsChanged, viewVars,
                 toasts>>

\* ... and a delete of the rows of any user_id, under the DELETE policy (42-44)
AttemptDelete(caller, uid, mid) ==
  /\ peerWrites < MaxPeerWrites
  /\ peerWrites' = peerWrites + 1
  /\ RowsOf(store, uid, mid) # {}
  /\ IF WriteAllowed(caller, uid)
     THEN /\ CanNotify(mid)
          /\ store' = DeleteRows(store, uid, mid)
          /\ channels' = Notify(channels, mid)
     ELSE UNCHANGED <<store, channels>>
  /\ hist' = [hist EXCEPT !.missed = @ \/ (WriteAllowed(caller, uid) /\ Missed(mid)),
                          !.foreign = @ \/ (caller # uid /\ store' # store),
                          !.rejected = @ \/ (caller # uid /\ store' = store)]
  /\ UNCHANGED <<authUser, geoAvailable, mounted, matchId, hookState, rWatchId, geoVars,
                 updTasks, nextEvent, stopTasks, nextStop, fetches, depsChanged, viewVars,
                 toasts>>

\* ------------------------------------------------ Store synchronisation
\* fetchLocations (137-146): the select is evaluated by the Store ...
FetchRead(f) ==
  /\ f \in BagToSet(fetches) /\ f.phase = "sent"
  /\ fetches' = (fetches (-) One(f)) (+) One([f EXCEPT !.phase = "read",
                                                      !.data = SelectAs(authUser, store, f.mid)])
  /\ UNCHANGED <<storeVars, authUser, geoAvailable, mounted, matchId, hookState, rWatchId,
                 geoVars, updTasks, nextEvent, stopTasks, nextStop, channels, depsChanged,
                 viewVars, toasts, hist>>

\* ... and its response resumes fetchLocations: setTrackedUsers(data) (143-145)
SetTrackedUsersMerge(data) == trackedUsers \cup data

SetTrackedUsers(data) == data

FetchReturn(f) ==
  /\ f \in BagToSet(fetches) /\ f.phase = "read"
  /\ fetches' = fetches (-) One(f)
  /\ trackedUsers' = IF mounted THEN SetTrackedUsers(f.data) ELSE trackedUsers
  /\ depsChanged' = (depsChanged \/ mounted)
  /\ hist' = [hist EXCEPT !.tuSrc = IF mounted THEN f.src ELSE @]
  /\ UNCHANGED <<storeVars, authUser, geoAvailable, mounted, matchId, isTracking,
                 currentLocation, watchId, rWatchId, geoVars, updTasks, nextEvent, stopTasks,
                 nextStop, channels, viewVars, toasts>>

\* the select fails (error set or data null): nothing is done (143)
FetchFailClears(f) ==
  /\ f \in BagToSet(fetches)
  /\ fetches' = fetches (-) One(f)
  /\ trackedUsers' = {}
  /\ depsChanged' = (depsChanged \/ trackedUsers # {})
  /\ hist' = [hist EXCEPT !.fetchFailed = TRUE, !.failedInit = @ \/ f.src = "init"]
  /\ UNCHANGED <<storeVars, authUser, geoAvailable, mounted, matchId, isTracking,
                 currentLocation, watchId, rWatchId, geoVars, updTasks, nextEvent, stopTasks,
                 nextStop, channels, viewVars, toasts>>

FetchFail(f) ==
  /\ f \in BagToSet(fetches)
  /\ fetches' = fetches (-) One(f)
  /\ hist' = [hist EXCEPT !.fetchFailed = TRUE, !.failedInit = @ \/ f.src = "init"]
  /\ UNCHANGED <<storeVars, authUser, geoAvailable, mounted, matchId, hookState, rWatchId,
                 geoVars, updTasks, nextEvent, stopTasks, nextStop, channels, depsChanged,
                 viewVars, toasts>>

\* the server acknowledges the join of a channel (165)
ChannelJoined(i) ==
  /\ i \in OpenChannels
  /\ ~channels[i].joined
  /\ channels' = [channels EXCEPT ![i] = [@ EXCEPT !.joined = TRUE]]
  /\ UNCHANGED <<storeVars, authUser, geoAvailable, mounted, matchId, hookState, rWatchId,
                 geoVars, updTasks, nextEvent, stopTasks, nextStop, fetches, depsChanged,
                 viewVars, toasts, hist>>

\* the postgres_changes callback of a channel (161-163)
NotifyDeliverTwice(i) ==
  /\ i \in OpenChannels
  /\ channels[i].pending > 0
  /\ BagCardinality(fetches) < MaxFetches
  /\ channels' = [channels EXCEPT ![i] = [@ EXCEPT !.pending = @ - 1]]
  /\ fetches' = (fetches (+) One(NewFetch(channels[i].mid, "notify")))
                   (+) One(NewFetch(channels[i].mid, "notify"))
  /\ UNCHANGED <<storeVars, authUser, geoAvailable, mounted, matchId, hookState, rWatchId,
                 geoVars, updTasks, nextEvent, stopTasks, nextStop, depsChanged, viewVars,
                 toasts, hist>>

NotifyDeliver(i) ==
  /\ i \in OpenChannels
  /\ channels[i].pending > 0
  /\ BagCardinality(fetches) < MaxFetches
  /\ channels' = [channels EXCEPT ![i] = [@ EXCEPT !.pending = @ - 1]]
  /\ fetches' = fetches (+) One(NewFetch(channels[i].mid, "notify"))
  /\ UNCHANGED <<storeVars, authUser, geoAvailable, mounted, matchId, hookState, rWatchId,
                 geoVars, updTasks, nextEvent, stopTasks, nextStop, depsChanged, viewVars,
                 toasts, hist>>

\* ------------------------------------- Presence View: marker reconciliation
Ids(tu) == {r.user_id : r \in tu}

SampleOf(tu, u) == CHOOSE r \in tu : r.user_id = u

MinOf(S) == CHOOSE x \in S : \A y \in S : x <= y

MaxOf(S) == CHOOSE x \in S : \A y \in S : x >= y

\* object identities for the markers created in one run
Numbering(fresh, next) ==
  CHOOSE f \in [fresh -> next..(next + Cardinality(fresh) - 1)] :
    \A a, b \in fresh : a # b => f[a] # f[b]

\* trackedUsers.forEach: move the existing marker or create one (122-147)
UpdateOrRecreate(ref, tu, next) ==
  LET num == Numbering(Ids(tu), next) IN
  [u \in DOMAIN ref \cup Ids(tu) |->
     IF u \in Ids(tu)
     THEN [obj |-> num[u], lng |-> SampleOf(tu, u).longitude, lat |-> SampleOf(tu, u).latitude]
     ELSE ref[u]]

UpdateOrCreate(ref, tu, next) ==
  LET num == Numbering(Ids(tu) \ DOMAIN ref, next) IN
  [u \in DOMAIN ref \cup Ids(tu) |->
     IF u \in Ids(tu)
     THEN [obj |-> IF u \in DOMAIN ref THEN ref[u].obj ELSE num[u],
           lng |-> SampleOf(tu, u).longitude, lat |-> SampleOf(tu, u).latitude]
     ELSE ref[u]]

\* Object.keys(markersRef.current).forEach: remove and delete (149-155)
RemoveNothing(ref, tu) == ref

RemoveUntracked(ref, tu) == [u \in DOMAIN ref \cap Ids(tu) |-> ref[u]]

Objs(ref) == {ref[u].obj : u \in DOMAIN ref}

\* bounds.extend over every user, then map.fitBounds (157-164)
BoundsOfOne(tu) ==
  LET r == CHOOSE x \in tu : TRUE IN
  [fitted |-> TRUE, west |-> r.longitude, south |-> r.latitude,
   east |-> r.longitude, north |-> r.latitude,
   padding |-> FitPadding, maxZoom |-> FitMaxZoom]

Bounds(tu) ==
  [fitted |-> TRUE,
   west |-> MinOf({r.longitude : r \in tu}), south |-> MinOf({r.latitude : r \in tu}),
   east |-> MaxOf({r.longitude : r \in tu}), north |-> MaxOf({r.latitude : r \in tu}),
   padding |-> FitPadding, maxZoom |-> FitMaxZoom]

EmptyBounds ==
  [fitted |-> TRUE, west |-> 0, south |-> 0, east |-> 0, north |-> 0,
   padding |-> FitPadding, maxZoom |-> FitMaxZoom]

FitAlways(vp, tu) == IF tu # {} THEN Bounds(tu) ELSE EmptyBounds

FitBounds(vp, tu) == IF tu # {} THEN Bounds(tu) ELSE vp

\* the marker effect of one render (112-165)
MarkerEffect(run) ==
  IF run /\ mapLoaded
  THEN LET ref1 == UpdateOrCreate(markersRef, trackedUsers, nextMarker)
           ref2 == RemoveUntracked(ref1, trackedUsers)
           made == Objs(ref1) \ Objs(markersRef)
           gone == Objs(ref1) \ Objs(ref2)
       IN /\ nextMarker + Cardinality(made) <= MaxMarkers + 1
          /\ markersRef' = ref2
          /\ onMap' = (onMap \cup made) \ gone
          /\ nextMarker' = nextMarker + Cardinality(made)
          /\ viewport' = FitBounds(viewport, trackedUsers)
          /\ hist' = [hist EXCEPT !.run = [kept |-> Objs(markersRef) \cap Objs(ref2) # {},
                                           removed |-> gone # {}, created |-> made # {},
                                           same |-> ref2 = markersRef]]
  ELSE UNCHANGED <<markersRef, onMap, nextMarker, viewport, hist>>

\* the fetch/subscribe effect of one render (133-170): the cleanup of the
\* previous run (167-169), then the new run (135-165)
CleanupSkipped == channels

CleanupChannel ==
  IF matchId # NoMatch THEN RemoveChannel(channels, Len(channels)) ELSE channels

SubscribeEffect(newMid) ==
  IF newMid # matchId
  THEN /\ newMid # NoMatch => Len(channels) < MaxChannels
       /\ channels' = IF newMid # NoMatch THEN Append(CleanupChannel, NewChannel(newMid))
                      ELSE CleanupChannel
       /\ fetches' = IF newMid # NoMatch THEN fetches (+) One(NewFetch(newMid, "init"))
                     ELSE fetches
  ELSE UNCHANGED <<channels, fetches>>

\* the watch cleanup effect (172-179): the cleanup of the previous run
\* clears the watch that run captured
WatchEffect ==
  /\ watches' = IF watchId # rWatchId /\ rWatchId # NoWatch
                THEN {w \in watches : w.id # rWatchId} ELSE watches
  /\ rWatchId' = watchId

\* a render of the component with the matchId prop newMid, followed by the
\* effects whose dependencies changed
Render(newMid) ==
  /\ mounted
  /\ newMid # matchId \/ watchId # rWatchId \/ depsChanged
  /\ matchId' = newMid
  /\ SubscribeEffect(newMid)
  /\ WatchEffect
  /\ MarkerEffect(depsChanged)
  /\ depsChanged' = FALSE
  /\ UNCHANGED <<storeVars, authUser, geoAvailable, mounted, hookState, nextWatch, updTasks,
                 nextEvent, stopTasks, nextStop, mapLoaded, toasts>>

\* map.on("load") (60-62)
MapLoad ==
  /\ mounted /\ ~mapLoaded
  /\ mapLoaded' = TRUE
  /\ depsChanged' = TRUE
  /\ UNCHANGED <<storeVars, authUser, geoAvailable, mounted, matchId, hookState, rWatchId,
                 geoVars, updTasks, nextEvent, stopTasks, nextStop, fetches, channels,
                 markersRef, onMap, nextMarker, viewport, toasts, hist>>

\* the component is unmounted: every effect's cleanup runs
Unmount ==
  /\ mounted
  /\ mounted' = FALSE
  /\ channels' = CleanupChannel
  /\ watches' = IF rWatchId # NoWatch THEN {w \in watches : w.id # rWatchId} ELSE watches
  /\ onMap' = {}
  /\ hist' = [hist EXCEPT !.seq = "idle"]
  /\ UNCHANGED <<storeVars, authUser, geoAvailable, matchId, hookState, rWatchId, nextWatch,
                 updTasks, nextEvent, stopTasks, nextStop, fetches, mapLoaded, depsChanged,
                 markersRef, nextMarker, viewport, toasts>>

\* every result a select of one session can have: at most one sample per user
SampleSets(mid) ==
  UNION {{ {Inserted(Row(u, mid, LocationOf(pos[u]))) : u \in S} : pos \in [S -> Locations]} :
         S \in SUBSET Users}

\* the component seen alone: the hook hands it a new trackedUsers array
\* (setTrackedUsers(data), 144) holding any result of the select
TrackedUsersChange(data) ==
  /\ mounted
  /\ trackedUsers' = SetTrackedUsers(data)
  /\ depsChanged' = TRUE
  /\ UNCHANGED <<storeVars, authUser, geoAvailable, mounted, matchId, isTracking,
                 currentLocation, watchId, rWatchId, geoVars, updTasks, nextEvent, stopTasks,
                 nextStop, fetches, channels, viewVars, toasts, hist>>

\* The publisher half and the synchronisation half of the hook share only
\* matchId and the Store: no publisher step reads trackedUsers, the fetches or
\* the channels, and no synchronisation step reads the watches or the tasks.
\* Each specification explores one part of the behaviour with the rest of
\* the environment at rest.

\* The participant shares and stops sharing within one session; the realtime
\* service has not yet acknowledged the join and the select is not yet answered.
InitPublisher == Init /\ matchId \in {"m1", NoMatch}

NextPublisher ==
  \/ StartTracking
  \/ \E w \in watches, loc \in Locations : PositionEvent(w, loc)
  \/ \E t \in updTasks : UpdGetUser(t)
  \/ \E t \in updTasks : UpdUpsert(t)
  \/ \E t \in updTasks : UpdUpsertFail(t)
  \/ StopTracking
  \/ \E t \in stopTasks : StopGetUser(t)
  \/ \E t \in stopTasks : StopDelete(t)
  \/ \E t \in stopTasks : StopDeleteFail(t)
  \/ Render(matchId)

SpecPublisher == InitPublisher /\ [][NextPublisher]_vars

\* The participant only watches the map of one session (LiveTrackingMap
\* always passes a matchId); the participants' devices write to the Store.
InitView == Init /\ authUser = Me /\ geoAvailable /\ matchId = "m1"

NextView ==
  \/ \E u \in Users, mid \in Matches, loc \in Locations : PeerUpsert(u, mid, loc)
  \/ \E u \in Users, mid \in Matches : PeerDelete(u, mid)
  \/ \E f \in BagToSet(fetches) : FetchRead(f)
  \/ \E f \in BagToSet(fetches) : FetchReturn(f)
  \/ \E f \in BagToSet(fetches) : FetchFail(f)
  \/ \E i \in OpenChannels : ChannelJoined(i)
  \/ \E i \in OpenChannels : NotifyDeliver(i)
  \/ Render(matchId)
  \/ MapLoad

SpecView == InitView /\ [][NextView]_vars

\* The owner of the hook moves it from session to session (matchId changes,
\* also to null) while one other participant shares from a fixed place and
\* stops sharing, in either session.
Peer == "u2"

PeerPlace == [latitude |-> 10, longitude |-> 20, accuracy |-> 5, heading |-> Null,
              speed |-> Null, set |-> TRUE]

NextSession ==
  \/ \E mid \in Matches : PeerUpsert(Peer, mid, PeerPlace)
  \/ \E mid \in Matches : PeerDelete(Peer, mid)
  \/ \E f \in BagToSet(fetches) : FetchRead(f)
  \/ \E f \in BagToSet(fetches) : FetchReturn(f)
  \/ \E i \in OpenChannels : ChannelJoined(i)
  \/ \E i \in OpenChannels : NotifyDeliver(i)
  \/ \E newMid \in Matches \cup {NoMatch} : Render(newMid)

SpecSession == InitView /\ [][NextSession]_vars

\* The life of the channels alone: session changes and the unmount, with the
\* selects answered or failing and nobody writing.
NextChannels ==
  \/ \E f \in BagToSet(fetches) : FetchRead(f)
  \/ \E f \in BagToSet(fetches) : FetchReturn(f)
  \/ \E f \in BagToSet(fetches) : FetchFail(f)
  \/ \E i \in OpenChannels : ChannelJoined(i)
  \/ \E newMid \in Matches \cup {NoMatch} : Render(newMid)
  \/ Unmount

SpecChannels == InitView /\ [][NextChannels]_vars

\* The component alone: any sequence of trackedUsers values of its session.
InitReconcile == InitView

NextReconcile ==
  \/ \E data \in SampleSets(matchId) : TrackedUsersChange(data)
  \/ Render(matchId)
  \/ MapLoad
  \/ Unmount

SpecReconcile == InitReconcile /\ [][NextReconcile]_vars

\* The component is torn down at any moment of a sharing session: the
\* participant starts and stops sharing in session m1, the device reports
\* positions, and the unmount can fall between any two steps.
NextTeardown ==
  \/ StartTracking
  \/ \E w \in watches, loc \in Locations : PositionEvent(w, loc)
  \/ \E t \in updTasks : UpdGetUser(t)
  \/ \E t \in updTasks : UpdUpsert(t)
  \/ StopTracking
  \/ \E t \in stopTasks : StopGetUser(t)
  \/ \E t \in stopTasks : StopDelete(t)
  \/ Render(matchId)
  \/ Unmount

SpecTeardown == InitView /\ [][NextTeardown]_vars

\* A sharing session that is not stopped, on a device whose position reads
\* sometimes fail and with Store writes that sometimes fail.
NextErrors ==
  \/ StartTracking
  \/ \E w \in watches, loc \in Locations : PositionEvent(w, loc)
  \/ \E w \in watches : GeoError(w)
  \/ \E t \in updTasks : UpdGetUser(t)
  \/ \E t \in updTasks : UpdUpsert(t)
  \/ \E t \in updTasks : UpdUpsertFail(t)
  \/ Render(matchId)

SpecErrors == InitView /\ [][NextErrors]_vars

\* A sharing session at one place on a device that reports heading and speed
\* only while it moves.
NextReadings ==
  \/ StartTracking
  \/ \E w \in watches, coords \in Readings : PositionEvent(w, coords)
  \/ \E t \in updTasks : UpdGetUser(t)
  \/ \E t \in updTasks : UpdUpsert(t)
  \/ StopTracking
  \/ \E t \in stopTasks : StopGetUser(t)
  \/ \E t \in stopTasks : StopDelete(t)
  \/ Render(matchId)

SpecReadings == InitView /\ [][NextReadings]_vars

\* The participant shares from PeerPlace and stops, while another signed-in
\* participant sends the Store every write the public client lets it build:
\* upserts and deletes of its own row and of the first participant's row.
Elsewhere == [latitude |-> 11, longitude |-> 21, accuracy |-> 5, heading |-> Null,
              speed |-> Null, set |-> TRUE]

NextOwnership ==
  \/ StartTracking
  \/ \E w \in watches : PositionEvent(w, PeerPlace)
  \/ \E t \in updTasks : UpdGetUser(t)
  \/ \E t \in updTasks : UpdUpsert(t)
  \/ StopTracking
  \/ \E t \in stopTasks : StopGetUser(t)
  \/ \E t \in stopTasks : StopDelete(t)
  \/ \E uid \in {Me, Peer} : AttemptUpsert(Peer, uid, "m1", Elsewhere)
  \/ \E uid \in {Me, Peer} : AttemptDelete(Peer, uid, "m1")
  \/ Render(matchId)

SpecOwnership == InitView /\ [][NextOwnership]_vars

\* The participant shares in m1 and stops, while the Store also gets rows the
\* hook instance does not own: the sample of another participant of m1 and
\* the participant's own sample in m2, written from another device.
NextFrame ==
  \/ StartTracking
  \/ \E w \in watches : PositionEvent(w, PeerPlace)
  \/ \E t \in updTasks : UpdGetUser(t)
  \/ \E t \in updTasks : UpdUpsert(t)
  \/ StopTracking
  \/ \E t \in stopTasks : StopGetUser(t)
  \/ \E t \in stopTasks : StopDelete(t)
  \/ PeerUpsert(Peer, "m1", Elsewhere)
  \/ PeerUpsert(Me, "m2", Elsewhere)
  \/ Render(matchId)

SpecFrame == InitView /\ [][NextFrame]_vars

\* The publishing hook of a party whose matchId prop changes from m1 to m2
\* while it is in use.
NextRekey ==
  \/ StartTracking
  \/ \E w \in watches : PositionEvent(w, PeerPlace)
  \/ \E t \in updTasks : UpdGetUser(t)
  \/ \E t \in updTasks : UpdUpsert(t)
  \/ StopTracking
  \/ \E t \in stopTasks : StopGetUser(t)
  \/ \E t \in stopTasks : StopDelete(t)
  \/ \E newMid \in {matchId, "m2"} : Render(newMid)

SpecRekey == InitView /\ [][NextRekey]_vars

\* The view of a party of m1 whose reads of the session can fail while a
\* peer keeps publishing.
NextFailure ==
  \/ \E loc \in Locations : PeerUpsert(Peer, "m1", loc)
  \/ PeerDelete(Peer, "m1")
  \/ \E f \in BagToSet(fetches) : FetchRead(f)
  \/ \E f \in BagToSet(fetches) : FetchReturn(f)
  \/ \E f \in BagToSet(fetches) : FetchFail(f)
  \/ \E i \in OpenChannels : ChannelJoined(i)
  \/ \E i \in OpenChannels : NotifyDeliver(i)
  \/ Render(matchId)

SpecFailure == InitView /\ [][NextFailure]_vars

\* The publishing hook, signed in or not, bound to m1 or to no session, whose
\* matchId prop may become null while it is in use.
InitUnbound == Init /\ geoAvailable = TRUE /\ matchId \in {"m1", NoMatch}

NextUnbound ==
  \/ StartTracking
  \/ \E w \in watches : PositionEvent(w, PeerPlace)
  \/ \E t \in updTasks : UpdGetUser(t)
  \/ \E t \in updTasks : UpdUpsert(t)
  \/ StopTracking
  \/ \E t \in stopTasks : StopGetUser(t)
  \/ \E t \in stopTasks : StopDelete(t)
  \/ \E newMid \in {matchId, NoMatch} : Render(newMid)

SpecUnbound == InitUnbound /\ [][NextUnbound]_vars

\* ======================================================================
\* Properties
\* ======================================================================

\* C1: whatever location events, upserts and deletes have happened, the Store
\* never holds more than one Position Sample for the same (user_id, match_id);
\* an upsert for an existing pair replaces the row.
C1_OneSamplePerPair ==
  \A u \in Users, mid \in Matches : CountOf(store, u, mid) <= 1

\* an upsert has hit an existing pair and the pair still has exactly one row
C1_Witness ==
  hist.replaced /\ \E mid \in Matches : CountOf(store, Me, mid) = 1

\* C2 (as claimed): once stopTracking() of session M has completed (its delete
\* succeeded), no watch is active and every updateLocation and stopTracking
\* call has run to its end, the Store holds no Position Sample for (Me, M).
C2_StopLeavesNoSample ==
  (/\ mounted
   /\ hist.lastStop # NoMatch
   /\ watches = {}
   /\ updTasks = {}
   /\ stopTasks = {})
  => RowsOf(store, Me, hist.lastStop) = {}

C4_ChannelsReleasedOnce ==
  /\ \A i \in DOMAIN channels : channels[i].removed <= 1
  /\ OpenChannels = IF mounted /\ matchId # NoMatch THEN {Len(channels)} ELSE {}
  /\ (mounted /\ matchId # NoMatch) => channels[Len(channels)].mid = matchId

\* the session has changed and the hook was then unmounted: two channels
\* were opened and each has been removed once
C4_Witness ==
  /\ ~mounted
  /\ Len(channels) = 2
  /\ \A i \in DOMAIN channels : channels[i].removed = 1

\* a notification was delivered in this step (the channel is still there)
Delivered ==
  \E i \in DOMAIN channels :
    IsOpen(channels'[i]) /\ channels'[i].pending < channels[i].pending

\* the hook got a non-null matchId in this step
Acquired == matchId' # matchId /\ matchId' # NoMatch

\* C5: acquiring a non-null matchId issues exactly one full fetch of that
\* session (the first render included); a delivered notification issues
\* exactly one full fetch and leaves trackedUsers alone; nothing else issues
\* a fetch; and a fetch that returns replaces trackedUsers by exactly the rows
\* it read. (No select fails under SpecSession.)
C5_Step ==
  /\ Acquired => fetches' = fetches (+) One(NewFetch(matchId', "init"))
  /\ Delivered =>
       /\ \E i \in OpenChannels : fetches' = fetches (+) One(NewFetch(channels[i].mid, "notify"))
       /\ trackedUsers' = trackedUsers
  /\ (~Acquired /\ ~Delivered) => BagCardinality(fetches') <= BagCardinality(fetches)
  /\ \A f \in BagToSet(fetches) :
       (f.phase = "read" /\ fetches' = fetches (-) One(f)) => trackedUsers' = f.data
  /\ trackedUsers' # trackedUsers =>
       \E f \in BagToSet(fetches) : f.phase = "read" /\ fetches' = fetches (-) One(f)

C5_FetchPerAcquireAndNotification == [][C5_Step]_vars

\* after a session change, a fetch issued by a notification has replaced the
\* list while a row of the session exists
C5_Witness ==
  /\ hist.tuSrc = "notify"
  /\ Len(channels) = 2
  /\ trackedUsers # {}

\* C6 (as claimed): when no select is in flight, every notification has been
\* delivered (none pending, none lost to a channel still joining) and no
\* select has failed, trackedUsers equals the Store's samples of the session.
C6_FinalConsistency ==
  (/\ fetches = EmptyBag
   /\ \A i \in OpenChannels : channels[i].joined /\ channels[i].pending = 0
   /\ ~hist.fetchFailed
   /\ ~hist.missed)
  => trackedUsers = SelectByMatch(store, matchId)

\* a render ran the marker effect with the map loaded in this step
Reconciled == mounted /\ mapLoaded /\ depsChanged /\ ~depsChanged'

AtSample(m, r) == m.lng = r.longitude /\ m.lat = r.latitude

\* C7: one reconciliation run keeps the marker object of every participant
\* who stays (only its position is set), removes and forgets the marker of
\* every participant who left, and creates a new marker object for every
\* participant who arrived.
C7_Step ==
  Reconciled =>
    /\ \A u \in DOMAIN markersRef \cap Ids(trackedUsers) :
         /\ u \in DOMAIN markersRef'
         /\ markersRef'[u].obj = markersRef[u].obj
         /\ AtSample(markersRef'[u], SampleOf(trackedUsers, u))
         /\ markersRef'[u].obj \in onMap'
    /\ \A u \in DOMAIN markersRef \ Ids(trackedUsers) :
         /\ u \notin DOMAIN markersRef'
         /\ markersRef[u].obj \notin onMap'
    /\ \A u \in Ids(trackedUsers) \ DOMAIN markersRef :
         /\ u \in DOMAIN markersRef'
         /\ markersRef'[u].obj >= nextMarker
         /\ \A v \in DOMAIN markersRef' : v # u => markersRef'[v].obj # markersRef'[u].obj
         /\ AtSample(markersRef'[u], SampleOf(trackedUsers, u))
         /\ markersRef'[u].obj \in onMap'

C7_ReconcileKeepsRemovesCreates == [][C7_Step]_vars

\* the last run kept a marker, removed one and created one: {A,B} -> {A,C}
C7_Witness ==
  /\ hist.run.kept /\ hist.run.removed /\ hist.run.created
  /\ Cardinality(DOMAIN markersRef) = 2
  /\ ~depsChanged

\* C8 (as claimed): in every state the users with a marker are the users of
\* trackedUsers.
C8_MarkersAlwaysCongruent == DOMAIN markersRef = Ids(trackedUsers)

MarkersShow(ref, tu) ==
  /\ DOMAIN ref = Ids(tu)
  /\ \A u \in DOMAIN ref : AtSample(ref[u], SampleOf(tu, u))

\* C8 (amended): once the map has loaded and the render that follows the
\* latest change of trackedUsers has run its effects, the users with a marker
\* are the users of trackedUsers, each marker is on the map at its user's
\* sample, and no other participant marker is on the map.
C8_MarkersCongruentAfterRun ==
  (mapLoaded /\ ~depsChanged) =>
    /\ MarkersShow(markersRef, trackedUsers)
    /\ onMap = Objs(markersRef)

\* two participants fetched after a notification, both shown
C8_Witness ==
  /\ mapLoaded /\ ~depsChanged
  /\ hist.tuSrc = "notify"
  /\ Cardinality(Ids(trackedUsers)) = 2
  /\ DOMAIN markersRef = Ids(trackedUsers)

\* C9: a delivered notification issues exactly one fetch, and a
\* reconciliation run over the set the markers already show creates no
\* marker, removes none and leaves every marker object and position as it is.
C9_Step ==
  /\ Delivered => BagCardinality(fetches') = BagCardinality(fetches) + 1
  /\ (Reconciled /\ MarkersShow(markersRef, trackedUsers)) =>
       /\ markersRef' = markersRef
       /\ onMap' = onMap
       /\ nextMarker' = nextMarker

C9_NoChurnOnSameSet == [][C9_Step]_vars

\* the list fetched after a notification was the one already shown: the run
\* kept the markers and changed nothing
C9_Witness ==
  /\ hist.tuSrc = "notify"
  /\ hist.run.same /\ hist.run.kept
  /\ ~hist.run.created /\ ~hist.run.removed
  /\ mapLoaded /\ ~depsChanged

\* C10: a reconciliation run over an empty trackedUsers removes every
\* participant marker and leaves the viewport as it was.
C10_Step ==
  (Reconciled /\ trackedUsers = {}) =>
    /\ DOMAIN markersRef' = {}
    /\ onMap' = {}
    /\ viewport' = viewport

C10_EmptySetKeepsViewport == [][C10_Step]_vars

\* the list became empty after a fitted, non-empty one: the run removed the
\* markers and the viewport is still the fitted one
C10_Witness ==
  /\ mounted /\ mapLoaded /\ ~depsChanged
  /\ trackedUsers = {}
  /\ DOMAIN markersRef = {}
  /\ hist.run.removed
  /\ viewport.fitted

\* C11 (as claimed): once the component is unmounted no geolocation watch of
\* the hook is active, whether or not stopTracking() was called, so no
\* position callback can fire after the unmount.
C11_UnmountClearsWatch == ~mounted => watches = {}

\* C12 (as claimed): from the invocation of stopTracking() until the next
\* startTracking(), no geolocation watch of the hook is active (so no location
\* event is processed), isTracking is false and currentLocation is null.
C12_StopIsSynchronous ==
  hist.halted => (watches = {} /\ ~isTracking /\ currentLocation = NoLocation)

\* C13: on a device without geolocation, whatever is called, no watch is ever
\* registered, isTracking stays false, watchId and currentLocation stay null,
\* no upsert is started and the Store gets no row; startTracking() shows the
\* "Error" notification and never "Location Sharing Started".
C13_NoCapabilityNoMonitoring ==
  ~geoAvailable =>
    /\ watches = {} /\ nextWatch = 1
    /\ ~isTracking
    /\ watchId = NoWatch
    /\ currentLocation = NoLocation
    /\ updTasks = {} /\ nextEvent = 1
    /\ store = EmptyBag
    /\ "Location Sharing Started" \notin toasts

\* startTracking() was called without geolocation: the notification is shown
C13_Witness ==
  /\ ~geoAvailable
  /\ "Error" \in toasts
  /\ watches = {} /\ ~isTracking /\ watchId = NoWatch

\* the "Location Error" notification is raised in this step
ErrorRaised == "Location Error" \in toasts' /\ "Location Error" \notin toasts

\* C14: the step in which a geolocation error raises its notification changes
\* nothing else: the watches, the watch counter, isTracking, currentLocation,
\* watchId, the upserts in flight and the Store are as before.
C14_Step ==
  ErrorRaised =>
    /\ watches # {}
    /\ UNCHANGED <<watches, nextWatch, isTracking, currentLocation, watchId, rWatchId,
                   updTasks, nextEvent, store>>

C14_GeoErrorOnlyNotifies == [][C14_Step]_vars

\* after an error the same watch delivered a position, which was displayed
\* and written to the Store; the hook is still tracking
C14_Witness ==
  /\ "Location Error" \in toasts
  /\ hist.recovered
  /\ isTracking /\ watches # {} /\ nextWatch = 2
  /\ currentLocation # NoLocation
  /\ RowsOf(store, Me, "m1") # {}

\* the titles of the notifications the hook raises for other reasons
OtherTitles ==
  {"Error", "Location Error", "Location Sharing Started", "Location Sharing Stopped"}

\* C15 (as claimed): when the select of the initial fetch of a session has
\* failed, the failure has been reported to the user by a notification.
C15_InitialReadErrorReported ==
  hist.failedInit => toasts \ OtherTitles # {}

\* an upsert failed in this step (its error went to console.error)
WriteFailed == hist'.writeErrors > hist.writeErrors

\* C16: the step in which an upsert fails raises no notification, leaves
\* isTracking, currentLocation, watchId, the watches and the Store as they are
\* and ends that updateLocation call without starting another one; and the
\* number of upsert attempts never exceeds the number of location events.
C16_Step ==
  /\ WriteFailed =>
       /\ UNCHANGED <<toasts, isTracking, currentLocation, watchId, watches, nextWatch, store>>
       /\ updTasks' \subseteq updTasks
       /\ Cardinality(updTasks') = Cardinality(updTasks) - 1
  /\ hist'.attempts <= nextEvent' - 1

C16_FailedUpsertOnlyLogged == [][C16_Step]_vars

\* the upsert of the first event failed, the one of the second event
\* succeeded: two events, two attempts, one row, no error notification
C16_Witness ==
  /\ hist.writeErrors = 1 /\ hist.attempts = 2 /\ nextEvent = 3
  /\ CountOf(store, Me, "m1") = 1
  /\ isTracking /\ watches # {}
  /\ toasts = {"Location Sharing Started"}

\* C17 (as claimed): when the delete of a stopTracking() call has failed and
\* startTracking() has not been called since, stopTracking() has completed
\* with its notification shown, isTracking is false, currentLocation is null
\* and no watch is active.
C17_FailedDeleteStillStops ==
  (hist.deleteFailed /\ hist.halted /\ stopTasks = {}) =>
    /\ "Location Sharing Stopped" \in toasts
    /\ ~isTracking
    /\ currentLocation = NoLocation
    /\ watches = {}

\* an upsert succeeded in this step
Upserted == hist'.attempts > hist.attempts /\ hist'.writeErrors = hist.writeErrors

\* the column holds what the event reported: NULL when nothing was reported
\* (never zero), the reported value otherwise (zero included)
AsReported(col, v) == col = (IF v = Undefined THEN Null ELSE v)

\* C19 (as claimed): after the upsert of a location event, the Position Sample
\* of the participant holds, in accuracy, heading and speed, exactly what that
\* event reported, and NULL for what it did not report.
C19_Step ==
  Upserted =>
    \E t \in updTasks \ updTasks' :
      \A r \in RowsOf(store', t.uid, t.mid) :
        /\ AsReported(r.accuracy, t.loc.accuracy)
        /\ AsReported(r.heading, t.loc.heading)
        /\ AsReported(r.speed, t.loc.speed)

C19_OptionalFieldsAsReported == [][C19_Step]_vars

\* a location event fired in this step
EventFired == nextEvent' > nextEvent

\* C18: a successful startTracking() makes isTracking true (it stays true in
\* a session that is not stopped); every location event sets currentLocation
\* to its reading and starts exactly one updateLocation for the session; and
\* every successful upsert is keyed on (authenticated user, matchId), leaves
\* exactly one Position Sample for that key, at the event's coordinates:
\* created by the first event, replaced by the later ones.
C18_Step ==
  /\ nextWatch' > 1 => isTracking'
  /\ EventFired =>
       /\ currentLocation'.set
       /\ currentLocation'.latitude = hist'.reading.latitude
       /\ currentLocation'.longitude = hist'.reading.longitude
       /\ currentLocation'.accuracy = hist'.reading.accuracy
       /\ \E t \in updTasks' \ updTasks :
            /\ updTasks' = updTasks \cup {t}
            /\ t.ev = nextEvent /\ t.mid = matchId /\ t.loc = currentLocation'
  /\ Upserted =>
       \E t \in updTasks \ updTasks' :
         /\ t.uid = authUser /\ t.mid = matchId
         /\ CountOf(store', authUser, matchId) = 1
         /\ \A r \in RowsOf(store', authUser, matchId) :
              r.latitude = t.loc.latitude /\ r.longitude = t.loc.longitude
         /\ BagCardinality(store') =
              BagCardinality(store) + (IF RowsOf(store, authUser, matchId) = {} THEN 1 ELSE 0)

C18_EventsDisplayedAndUpserted == [][C18_Step]_vars

\* the second event of the session moved the participant: its upsert replaced
\* the row created by the first, and currentLocation shows the second reading
C18_Witness ==
  /\ isTracking /\ nextEvent = 3 /\ updTasks = {}
  /\ hist.attempts = 2 /\ hist.writeErrors = 0 /\ hist.replaced
  /\ currentLocation.latitude = 11
  /\ \E r \in BagToSet(store) : r.user_id = Me /\ r.match_id = "m1" /\ r.latitude = 11
  /\ BagCardinality(store) = 1

\* C20: every upsert and delete the hook has in flight carries the id of the
\* authenticated user; no write sent by a caller for another user's user_id
\* has changed the Store; and the participant's Position Sample is only ever
\* at a place the participant's own device reported.
C20_OnlyOwnerWrites ==
  /\ \A t \in updTasks : t.pc = "upsert" => t.uid = authUser
  /\ \A t \in stopTasks : t.pc = "delete" => t.uid = authUser
  /\ ~hist.foreign
  /\ \A r \in RowsOf(store, Me, "m1") :
       r.latitude = PeerPlace.latitude /\ r.longitude = PeerPlace.longitude

\* the other participant's writes on the first participant's row were
\* rejected while both participants hold their own Position Sample
C20_Witness ==
  /\ hist.rejected
  /\ RowsOf(store, Me, "m1") # {}
  /\ RowsOf(store, Peer, "m1") # {}

\* C21 (as claimed): a select of a session's Position Samples that has been
\* answered with rows (no error) was sent by a party of that match; a select
\* by anybody else is refused.
C21_StrangerReadDenied ==
  \A f \in BagToSet(fetches) : f.phase = "read" => authUser \in Parties(f.mid)

\* C22: the step in which an upsert or the delete of the hook reaches the
\* Store leaves every row with another user_id or another match_id exactly
\* as it was.
C22_Step ==
  \A t \in (updTasks \ updTasks') \cup (stopTasks \ stopTasks') :
    \A r \in BagToSet(store) \cup BagToSet(store') :
      (r.user_id # authUser \/ r.match_id # t.mid) => CopiesIn(r, store') = CopiesIn(r, store)

C22_WritesTouchOwnRowOnly == [][C22_Step]_vars

\* the participant shared in m1 and stopped: the row (Me, m1) was written and
\* deleted, the other participant's row in m1 and the participant's own row
\* in m2 are still there
C22_Witness ==
  /\ hist.lastStop = "m1" /\ hist.attempts >= 1
  /\ RowsOf(store, Me, "m1") = {}
  /\ RowsOf(store, Peer, "m1") # {}
  /\ RowsOf(store, Me, "m2") # {}

\* C23: once the reconciliation has run over a non-empty trackedUsers with
\* the map loaded, every participant has a marker on the map at exactly the
\* (longitude, latitude) of its sample, and the viewport is fitted, with
\* padding 50 and zoom capped at 15, to bounds that contain every
\* participant's position and are no wider than the positions.
C23_MarkersAtSamplesViewportFits ==
  (mounted /\ mapLoaded /\ ~depsChanged /\ trackedUsers # {}) =>
    /\ \A r \in trackedUsers :
         /\ r.user_id \in DOMAIN markersRef
         /\ markersRef[r.user_id].lng = r.longitude
         /\ markersRef[r.user_id].lat = r.latitude
         /\ markersRef[r.user_id].obj \in onMap
         /\ viewport.west <= r.longitude /\ r.longitude <= viewport.east
         /\ viewport.south <= r.latitude /\ r.latitude <= viewport.north
    /\ viewport.fitted
    /\ viewport.padding = 50 /\ viewport.maxZoom = 15
    /\ \E r \in trackedUsers : viewport.west = r.longitude
    /\ \E r \in trackedUsers : viewport.east = r.longitude
    /\ \E r \in trackedUsers : viewport.south = r.latitude
    /\ \E r \in trackedUsers : viewport.north = r.latitude

\* two participants at two places: two markers at those coordinates and a
\* viewport bounding both
C23_Witness ==
  /\ mounted /\ mapLoaded /\ ~depsChanged
  /\ Ids(trackedUsers) = {"u1", "u2"}
  /\ markersRef["u1"].lat = 10 /\ markersRef["u1"].lng = 20
  /\ markersRef["u2"].lat = 11 /\ markersRef["u2"].lng = 21
  /\ viewport.west = 20 /\ viewport.east = 21 /\ viewport.south = 10 /\ viewport.north = 11

\* C24: whenever the hook has re-rendered since its last startTracking or
\* stopTracking call (its callbacks hold the current watchId), at most one
\* geolocation watch of the instance is active, and none is active while
\* isTracking is false.
C24_AtMostOneActiveWatch ==
  (mounted /\ watchId = rWatchId) =>
    /\ Cardinality(watches) <= 1
    /\ ~isTracking => watches = {}

\* C25: every upsert issued for a location event is keyed on the matchId the
\* hook holds when the event fires: the event starts exactly one update for
\* the current session and none for any other.
C25_Step ==
  (nextEvent' # nextEvent /\ matchId # NoMatch) =>
    /\ \A t \in updTasks' \ updTasks : t.mid = matchId
    /\ \E t \in updTasks' \ updTasks : t.mid = matchId
C25_EventKeyedOnCurrentMatch == [][C25_Step]_vars

\* C26: trackedUsers holds only Position Samples of the session the hook is
\* currently bound to.
C26_TrackedUsersOfCurrentMatch ==
  \A r \in trackedUsers : r.match_id = matchId

\* C27: once every upsert started by the location events so far has
\* completed successfully, the stored Position Sample of the participant
\* holds the coordinates of the last event.
C27_LastEventWins ==
  (nextEvent > 1 /\ updTasks = {} /\ hist.writeErrors = 0 /\ hist.attempts = nextEvent - 1) =>
    /\ RowsOf(store, Me, "m1") # {}
    /\ \A r \in RowsOf(store, Me, "m1") :
         r.latitude = hist.reading.latitude /\ r.longitude = hist.reading.longitude

\* a fetch ends without its response having been read: only a failure does that
FailedUnanswered ==
  \E f \in BagToSet(fetches) : f.phase = "sent" /\ fetches' = fetches (-) One(f)

FirstFailure == ~hist.fetchFailed /\ hist'.fetchFailed

\* C28: a fetch that fails leaves trackedUsers as it was and the channel
\* subscription open, and after a failure a delivered change notification
\* still starts a new fetch of the session.
C28_Step ==
  /\ (FailedUnanswered \/ FirstFailure) =>
       /\ trackedUsers' = trackedUsers
       /\ depsChanged' = depsChanged
       /\ channels' = channels
       /\ \E i \in DOMAIN channels' : IsOpen(channels'[i]) /\ channels'[i].mid = matchId
  /\ (hist.fetchFailed /\ Delivered) =>
       \E i \in DOMAIN channels :
         /\ channels'[i].pending < channels[i].pending
         /\ fetches' = fetches (+) One(NewFetch(channels[i].mid, "notify"))
C28_FailedFetchChangesNothing == [][C28_Step]_vars

\* the initial fetch failed with a sample on display or not, and a fetch
\* started by a later notification has set trackedUsers
C28_Witness ==
  /\ hist.failedInit
  /\ hist.tuSrc = "notify"
  /\ trackedUsers # {}
  /\ \E i \in DOMAIN channels : IsOpen(channels[i])

\* C29: while matchId is null a location event starts no update and
\* stopTracking starts no delete, with no user signed in nothing is written
\* to the Store and no request reaches the upsert or the delete, and a
\* render with a null matchId opens no fetch and no channel; startTracking
\* still sets isTracking and the event still sets currentLocation.
C29_Step ==
  /\ (nextEvent' # nextEvent /\ matchId = NoMatch) =>
       (updTasks' = updTasks /\ currentLocation'.set)
  /\ (nextStop' # nextStop /\ matchId = NoMatch) => stopTasks' = stopTasks
  /\ (nextWatch' # nextWatch) => isTracking'
  /\ authUser = NoUser =>
       /\ store' = store
       /\ \A t \in updTasks' \cup stopTasks' : t.pc = "getUser"
  /\ matchId' = NoMatch =>
       /\ BagCardinality(fetches') <= BagCardinality(fetches)
       /\ \A i \in DOMAIN channels' : ~IsOpen(channels'[i])
C29_NoWriteWithoutMatchOrUser == [][C29_Step]_vars

====
